---- MODULE Spec2Model ----
(***************************************************************************)
(* Model of @devluosir/pre-hydration-cleanup.                              *)
(*                                                                         *)
(* core (src/unnamed/part_004): the attribute registry, the environment    *)
(* resolver, the attribute composition of createPreHydrationScript and     *)
(* createCSPSafeScript, the browser-side cleanup routine and its telemetry *)
(* variant, the extension detector and the throttled developer warning.    *)
(*                                                                         *)
(* Four specifications share the variables:                                *)
(*   SpecCompose    the script generators applied to drawn inputs          *)
(*   SpecCleanup    a browser page: parser, extensions, cleanup routine    *)
(*   SpecTelemetry  the module-scope telemetry variant and its counters    *)
(*   SpecWarn       devExtensionWarning, its timers and the throttle map   *)
(***************************************************************************)
EXTENDS Integers, Sequences, FiniteSets, TLC

VARIABLES
    \* ---- inputs and outputs of the script generators
    env,              \* process / process.env.NEXT_PUBLIC_CLEANUP_ATTRS
    customAttrs,      \* the customAttrs argument
    useEnvOverride,   \* the useEnvOverride argument
    script,           \* last result of createPreHydrationScript, or NoResult
    bundle,           \* last result of createCSPSafeScript, or NoResult
    \* ---- quickSetup and the bundle's getScriptProps (index.ts, core)
    options,          \* the options object: nonce, enableTelemetry, enabled
    flags,            \* CLEANUP_DISABLE, window.__CLEANUP_DISABLE__, CLEANUP_TELEMETRY
    props,            \* last result of bundle.getScriptProps(), or NoResult
    setup,            \* last result of quickSetup, or NoResult
    \* ---- the command line (index.ts)
    cliArgs,          \* process.argv.slice(2), by option
    cliOut,           \* what cli() wrote, or NoResult
    \* ---- the execution context
    hasWindow,        \* typeof window !== 'undefined'
    nodeEnv,          \* process.env.NODE_ENV
    \* ---- the document
    readyState,       \* document.readyState
    dclFired,         \* DOMContentLoaded has been dispatched
    htmlPresent,      \* document.documentElement is not null
    bodyPresent,      \* document.body is not null
    htmlAttrs,        \* attributes of the root element: name -> value
    bodyAttrs,        \* attributes of the body element: name -> value
    listeners,        \* pending { once: true } DOMContentLoaded listeners
    threw,            \* an error escaped a routine evaluated in the page
    \* ---- process-wide state of core
    attributeTelemetry, \* Map attr -> count, in insertion order
    logThrottleCache,   \* Map key -> last logged time
    timers,             \* pending setTimeout callbacks of devExtensionWarning
    now,                \* Date.now()
    \* ---- observation (history) variables
    passes,           \* runs of clearExtensionAttrs so far
    invocations,      \* calls of preHydrationCleanup so far
    reports,          \* telemetry reports written to the console so far
    logs,             \* developer-warning messages written to the console
    lastOp            \* the operation that produced this state

setupVars   == <<options, flags, props, setup>>
cliVars     == <<cliArgs, cliOut>>
composeVars == <<env, customAttrs, useEnvOverride, script, bundle, setupVars, cliVars>>
ctxVars     == <<hasWindow, nodeEnv>>
domVars     == <<readyState, dclFired, htmlPresent, bodyPresent, htmlAttrs, bodyAttrs>>
pageVars    == <<listeners, threw, passes, invocations>>
telVars     == <<attributeTelemetry, reports>>
warnVars    == <<logThrottleCache, timers, now, logs>>
vars == <<composeVars, ctxVars, domVars, pageVars, telVars, warnVars, lastOp>>

(***************************************************************************)
(* Bounds of the model.                                                    *)
(***************************************************************************)
MaxCustom == 2        \* longest customAttrs list drawn
MaxEnvLen == 3        \* longest environment value drawn, in lexical pieces
MaxInvocations == 2   \* calls of the cleanup routine per page

(***************************************************************************)
(* Generic sequence helpers.                                               *)
(***************************************************************************)
Range(s) == {s[i] : i \in DOMAIN s}

SeqsUpTo(S, n) == UNION {[1..k -> S] : k \in 0..n}

\* index of the first occurrence of x in s (0 when absent)
FirstIndex(s, x) ==
    IF x \in Range(s) THEN CHOOSE i \in DOMAIN s : s[i] = x /\ \A j \in 1..(i-1) : s[j] # x
    ELSE 0

NoResult == [none |-> TRUE]

(***************************************************************************)
(* Attribute Registry.                                                     *)
(***************************************************************************)
COMMON_EXTENSION_ATTRS ==
    << "cz-shortcut-listen",
       "data-new-gr-c-s-check-loaded",
       "data-gr-ext-installed",
       "data-gramm_editor",
       "data-gramm",
       "data-lt-installed",
       "data-lt-tmp-id",
       "spellcheck",
       "data-lastpass-icon-root",
       "data-honey-extension-installed",
       "data-adblock-key",
       "data-ms-editor",
       "data-clipboard" >>

(***************************************************************************)
(* Environment Resolver.  The environment value is a string, modelled as   *)
(* the sequence of its lexical pieces: a comma, a blank, or a run of name  *)
(* characters.                                                             *)
(***************************************************************************)
Comma == ","
Blank == " "
EnvPieces == {Comma, Blank, "spellcheck", "y-ext"}

\* String.prototype.split(','): the pieces between commas, empty ones kept
RECURSIVE SplitFrom(_, _, _)
SplitFrom(s, i, cur) ==
    IF i > Len(s) THEN <<cur>>
    ELSE IF s[i] = Comma THEN <<cur>> \o SplitFrom(s, i + 1, <<>>)
    ELSE SplitFrom(s, i + 1, Append(cur, s[i]))

SplitComma(s) == SplitFrom(s, 1, <<>>)

\* String.prototype.trim(): leading and trailing blanks dropped
RECURSIVE TrimLeft(_)
TrimLeft(t) ==
    IF t # <<>> /\ Head(t) = Blank THEN TrimLeft(Tail(t)) ELSE t

RECURSIVE TrimRight(_)
TrimRight(t) ==
    IF t # <<>> /\ t[Len(t)] = Blank THEN TrimRight(SubSeq(t, 1, Len(t) - 1)) ELSE t

Trim(t) == TrimRight(TrimLeft(t))

\* the string a sequence of pieces spells
RECURSIVE Spell(_)
Spell(t) == IF t = <<>> THEN "" ELSE Head(t) \o Spell(Tail(t))

\* .filter(attr => attr.length > 0)
RECURSIVE FilterNonEmpty(_)
FilterNonEmpty(s) ==
    IF s = <<>> THEN <<>>
    ELSE IF Len(Head(s)) > 0 THEN <<Head(s)>> \o FilterNonEmpty(Tail(s))
    ELSE FilterNonEmpty(Tail(s))

\* e: [process: BOOLEAN, set: BOOLEAN, value: Seq(EnvPieces)]
getAttrsFromEnv(e) ==
    IF ~e.process \/ ~e.set \/ e.value = <<>> THEN <<>>
    ELSE LET tokens == SplitComma(e.value)
             trimmed == [i \in DOMAIN tokens |-> Spell(Trim(tokens[i]))]
         IN FilterNonEmpty(trimmed)

(***************************************************************************)
(* Attribute Composer.                                                     *)
(***************************************************************************)
\* Array.from(new Set(a)): a Set keeps the insertion order of first adds
RECURSIVE DedupeInto(_, _)
DedupeInto(acc, rest) ==
    IF rest = <<>> THEN acc
    ELSE IF Head(rest) \in Range(acc) THEN DedupeInto(acc, Tail(rest))
    ELSE DedupeInto(Append(acc, Head(rest)), Tail(rest))

\* variant: the list is used as concatenated, without the Set
UniqueOf_NoSet(allAttrs) == allAttrs

UniqueOf(allAttrs) == DedupeInto(<<>>, allAttrs)

\* variant: the defaults are kept under the override policy too
AllAttrs_KeepDefaults(custom, override, envAttrs) ==
    COMMON_EXTENSION_ATTRS \o envAttrs \o custom

AllAttrs(custom, override, envAttrs) ==
    IF override /\ Len(envAttrs) > 0
    THEN envAttrs \o custom
    ELSE COMMON_EXTENSION_ATTRS \o envAttrs \o custom

ComposeAttrs(custom, override, e) ==
    UniqueOf(AllAttrs(custom, override, getAttrsFromEnv(e)))

(***************************************************************************)
(* Script Serializer.  A script string `(${f.toString()})(${JSON.stringify *)
(* (attrs)});` is the source text of routine f applied to the attribute    *)
(* list: the record of the routine's name and its argument.                *)
(***************************************************************************)
Standard  == "preHydrationCleanup"
Telemetry == "preHydrationCleanupWithTelemetry"

Serialize(routine, attrs) == [routine |-> routine, args |-> attrs]

\* an optional option: given or undefined
Given(v)  == [given |-> TRUE, value |-> v]
Undefined == [given |-> FALSE]

\* destructuring default: `{ x = d } = options`
OrDefault(opt, d) == IF opt.given THEN opt.value ELSE d

\* createPreHydrationScript(customAttrs, useEnvOverride)
createPreHydrationScript(custom, override, e) ==
    Serialize(Standard, ComposeAttrs(custom, override, e))

CleanupFunction_AlwaysStandard(enableTelemetry) == Standard

\* const cleanupFunction = enableTelemetry ? ...WithTelemetry : preHydrationCleanup
CleanupFunction(enableTelemetry) ==
    IF enableTelemetry THEN Telemetry ELSE Standard

\* createCSPSafeScript({customAttrs, useEnvOverride, nonce, enableTelemetry})
createCSPSafeScript(custom, override, nonce, enableTelemetry, e) ==
    LET uniqueAttrs == ComposeAttrs(custom, override, e)
        telemetryOn == OrDefault(enableTelemetry, TRUE)
    IN [content |-> Serialize(CleanupFunction(telemetryOn), uniqueAttrs),
        nonce   |-> nonce,
        attrs   |-> uniqueAttrs]

\* JavaScript truthiness of an optional string: undefined and '' are falsy
Truthy(opt) == opt.given /\ opt.value # ""

NonceSpread_WhenGiven(nonce) == IF nonce.given THEN {"nonce"} ELSE {}

\* ...(nonce && { nonce }): the keys the spread contributes
NonceSpread(nonce) == IF Truthy(nonce) THEN {"nonce"} ELSE {}

\* getScriptProps() of the bundle b: the property bag, key by key
getScriptProps(b) ==
    [k \in {"id", "strategy", "children"} \cup NonceSpread(b.nonce) |->
        CASE k = "id"       -> "pre-hydration-cleanup"
          [] k = "strategy" -> "beforeInteractive"
          [] k = "nonce"    -> b.nonce.value
          [] OTHER          -> b.content]

(***************************************************************************)
(* quickSetup (index.ts).  The enabled option is a boolean, Given(b), or a *)
(* function returning one, Thunk(b).                                       *)
(***************************************************************************)
Thunk(b) == [given |-> TRUE, call |-> b]

\* process.env.X === v
EnvIs(x, v) == x.given /\ x.value = v

IsDisabled(f, win) ==
    EnvIs(f.cleanupDisable, "1") \/ (win /\ f.windowDisable)

ShouldEnable_SwitchOnly(enabled, f, win) == ~IsDisabled(f, win)

ShouldEnable(enabled, f, win) ==
    IF enabled.given
    THEN IF "call" \in DOMAIN enabled THEN enabled.call ELSE enabled.value
    ELSE ~IsDisabled(f, win)

\* the script text of the disabled placeholder: a comment, no routine
DisabledContent == [comment |-> "/* Pre-hydration cleanup disabled */"]

DisabledProps ==
    [id       |-> "pre-hydration-cleanup-disabled",
     strategy |-> "beforeInteractive",
     children |-> DisabledContent]

\* process.env.NODE_ENV === 'development' && process.env.CLEANUP_TELEMETRY !== '0'
AutoTelemetry(mode, f) ==
    mode = "development" /\ ~EnvIs(f.cleanupTelemetry, "0")

quickSetup(custom, override, opts, f, win, mode, e) ==
    IF ~ShouldEnable(opts.enabled, f, win)
    THEN DisabledProps
    ELSE getScriptProps(
             createCSPSafeScript(custom, override, opts.nonce,
                 Given(OrDefault(opts.enableTelemetry, AutoTelemetry(mode, f))), e))

(***************************************************************************)
(* The document.  An element's attributes are a function from the names it *)
(* carries to their values.                                                *)
(***************************************************************************)
DomNames == {"cz-shortcut-listen", "data-gramm", "class"}

\* the values an attribute is given by the markup or by an extension
ValuesOf(name) ==
    CASE name = "cz-shortcut-listen" -> {"true"}
      [] name = "data-gramm"         -> {"false"}
      [] OTHER                       -> {"app", "dark"}

NoAttrs == [n \in {} |-> ""]

ElementStates ==
    UNION {{f \in [D -> {"true", "false", "app", "dark"}] : \A n \in D : f[n] \in ValuesOf(n)}
           : D \in SUBSET DomNames}

hasAttribute(el, name) == name \in DOMAIN el

removeAttribute(el, name) == [n \in DOMAIN el \ {name} |-> el[n]]

setAttribute(el, name, value) ==
    [n \in DOMAIN el \cup {name} |-> IF n = name THEN value ELSE el[n]]

\* variant: only the first listed attribute is looked at
RemoveListed_HeadOnly(el, attrs) ==
    IF attrs = <<>> THEN el
    ELSE IF hasAttribute(el, Head(attrs)) THEN removeAttribute(el, Head(attrs)) ELSE el

\* attrs.forEach(attr => { if (el.hasAttribute(attr)) el.removeAttribute(attr) })
RECURSIVE RemoveListed(_, _)
RemoveListed(el, attrs) ==
    IF attrs = <<>> THEN el
    ELSE RemoveListed(IF hasAttribute(el, Head(attrs))
                      THEN removeAttribute(el, Head(attrs))
                      ELSE el,
                      Tail(attrs))

\* the document as the routines see it
Doc == [htmlPresent |-> htmlPresent, bodyPresent |-> bodyPresent,
        html |-> htmlAttrs, body |-> bodyAttrs]

(***************************************************************************)
(* Cleanup Routine.                                                        *)
(***************************************************************************)
\* clearExtensionAttrs: one cleanup pass over the document d
clearExtensionAttrs(d, attrs) ==
    IF ~d.bodyPresent THEN d
    ELSE [d EXCEPT !.body = RemoveListed(d.body, attrs),
                   !.html = IF d.htmlPresent THEN RemoveListed(d.html, attrs) ELSE @]

\* the names of attrs carried by the root or the body of d
ListedOn(d, attrs) == Range(attrs) \cap (DOMAIN d.html \cup DOMAIN d.body)

\* variant: the second pass is always left to the listener
SecondPassDeferred_Always(rs) == TRUE

\* the second pass runs inline unless document.readyState === 'loading'
SecondPassDeferred(rs) == rs = "loading"

\* the listeners of a DOMContentLoaded dispatch, run in registration order
RECURSIVE RunListeners(_, _)
RunListeners(d, ls) ==
    IF ls = <<>> THEN d
    ELSE RunListeners(clearExtensionAttrs(d, Head(ls)), Tail(ls))

\* { once: true }: a listener is removed when it is invoked
ListenersAfterDispatch(ls) == <<>>

\* the attribute lists the routines are called with
AttrLists ==
    { <<"cz-shortcut-listen">>,
      <<"cz-shortcut-listen", "data-gramm", "unrelated-attr">>,
      COMMON_EXTENSION_ATTRS }

SetDoc(d) ==
    /\ htmlAttrs' = d.html
    /\ bodyAttrs' = d.body
    /\ UNCHANGED <<htmlPresent, bodyPresent>>

\* preHydrationCleanup(attrs), called or evaluated from its serialized source
PreHydrationCleanup(attrs) ==
    /\ hasWindow
    /\ invocations < MaxInvocations
    /\ LET first == clearExtensionAttrs(Doc, attrs)
       IN IF SecondPassDeferred(readyState)
          THEN /\ SetDoc(first)
               /\ listeners' = Append(listeners, attrs)
               /\ passes' = passes + 1
          ELSE /\ SetDoc(clearExtensionAttrs(first, attrs))
               /\ listeners' = listeners
               /\ passes' = passes + 2
    /\ invocations' = invocations + 1
    /\ lastOp' = [op |-> "cleanup", attrs |-> attrs, found |-> ListedOn(Doc, attrs)]
    /\ UNCHANGED <<composeVars, ctxVars, readyState, dclFired, threw, telVars, warnVars>>

(***************************************************************************)
(* Telemetry Sidecar.  attributeTelemetry is a Map: its entries in         *)
(* insertion order.                                                        *)
(***************************************************************************)
MaxRemovals == 21     \* telemetry calls stop once this many removals are counted

MapHas(m, k) == \E i \in DOMAIN m : m[i].key = k

\* m.get(k) || 0
MapGetOr0(m, k) ==
    IF MapHas(m, k) THEN m[CHOOSE i \in DOMAIN m : m[i].key = k].value ELSE 0

\* m.set(k, v): an existing key keeps its place, a new one is appended
MapSet(m, k, v) ==
    IF MapHas(m, k)
    THEN [i \in DOMAIN m |-> IF m[i].key = k THEN [key |-> k, value |-> v] ELSE m[i]]
    ELSE Append(m, [key |-> k, value |-> v])

RECURSIVE SumValues(_)
SumValues(m) == IF m = <<>> THEN 0 ELSE Head(m).value + SumValues(Tail(m))

\* cleanedAttrs.forEach(attr => attributeTelemetry.set(attr, count + 1))
RECURSIVE CountAll(_, _)
CountAll(m, cleaned) ==
    IF cleaned = <<>> THEN m
    ELSE CountAll(MapSet(m, Head(cleaned), MapGetOr0(m, Head(cleaned)) + 1), Tail(cleaned))

\* if (totalCleanups % 10 === 0): a report is written
ReportDue(totalCleanups) == totalCleanups % 10 = 0

\* the guard of collectAttributeTelemetry
TelemetryActive(win, mode) == win /\ mode = "development"

\* collectAttributeTelemetry(cleanedAttrs): the new map and the reports written
collectAttributeTelemetry(m, cleaned, win, mode) ==
    IF ~TelemetryActive(win, mode) THEN [map |-> m, reported |-> 0]
    ELSE LET counted == CountAll(m, cleaned)
         IN [map |-> counted,
             reported |-> IF ReportDue(SumValues(counted)) THEN 1 ELSE 0]

\* the attributes of attrs found on el, in the order they are removed
RECURSIVE CleanedFrom(_, _)
CleanedFrom(el, attrs) ==
    IF attrs = <<>> THEN <<>>
    ELSE IF hasAttribute(el, Head(attrs))
         THEN <<Head(attrs)>> \o CleanedFrom(removeAttribute(el, Head(attrs)), Tail(attrs))
         ELSE CleanedFrom(el, Tail(attrs))

\* [document.documentElement, document.body].filter(Boolean), each element cleaned
TelemetryPass(d, attrs) ==
    [doc |-> [d EXCEPT !.html = IF d.htmlPresent THEN RemoveListed(d.html, attrs) ELSE @,
                       !.body = IF d.bodyPresent THEN RemoveListed(d.body, attrs) ELSE @],
     cleaned |-> (IF d.htmlPresent THEN CleanedFrom(d.html, attrs) ELSE <<>>)
                 \o (IF d.bodyPresent THEN CleanedFrom(d.body, attrs) ELSE <<>>)]

\* variant: the cleanup itself is gated on development mode too
CleanupActive_DevOnly(win, mode) == win /\ mode = "development"

\* the guard of preHydrationCleanupWithTelemetry
CleanupActive(win, mode) == win

\* the identifiers of core a scope binds: the module binds its own top-level
\* names; the page evaluating a serialized routine binds none of them
ModuleScope == {"collectAttributeTelemetry", "attributeTelemetry", "COMMON_EXTENSION_ATTRS"}
PageScope == {}

\* preHydrationCleanupWithTelemetry(attrs), run with the identifiers of `scope`
TelemetryCleanupIn(scope, attrs) ==
    IF ~CleanupActive(hasWindow, nodeEnv)
    THEN UNCHANGED <<htmlAttrs, bodyAttrs, htmlPresent, bodyPresent, telVars, threw>>
    ELSE LET pass == TelemetryPass(Doc, attrs)
         IN /\ SetDoc(pass.doc)
            /\ IF Len(pass.cleaned) > 0
               THEN IF "collectAttributeTelemetry" \in scope
                    THEN LET res == collectAttributeTelemetry(attributeTelemetry,
                                        pass.cleaned, hasWindow, nodeEnv)
                         IN /\ attributeTelemetry' = res.map
                            /\ reports' = reports + res.reported
                            /\ threw' = threw
                    ELSE \* ReferenceError: collectAttributeTelemetry is not defined
                         /\ threw' = TRUE
                         /\ UNCHANGED telVars
               ELSE UNCHANGED <<telVars, threw>>

\* a call of the exported preHydrationCleanupWithTelemetry
PreHydrationCleanupWithTelemetry(attrs) ==
    /\ SumValues(attributeTelemetry) < MaxRemovals
    /\ TelemetryCleanupIn(ModuleScope, attrs)
    /\ lastOp' = [op |-> "telemetry", attrs |-> attrs, found |-> ListedOn(Doc, attrs)]
    /\ UNCHANGED <<composeVars, ctxVars, readyState, dclFired, listeners, passes,
                   invocations, warnVars>>

\* the page evaluates the script string of a bundle whose routine is the
\* telemetry variant
EvalTelemetryScript(attrs) ==
    /\ hasWindow
    /\ TelemetryCleanupIn(PageScope, attrs)
    /\ lastOp' = [op |-> "evalTelemetry", attrs |-> attrs]
    /\ UNCHANGED <<composeVars, ctxVars, readyState, dclFired, listeners, passes,
                   invocations, warnVars>>

(***************************************************************************)
(* The page around the routines: the HTML parser, the document lifecycle   *)
(* and the extensions that inject attributes.                              *)
(***************************************************************************)
\* the parser creates the root element
ParseHtml ==
    /\ readyState = "loading"
    /\ ~htmlPresent
    /\ htmlPresent' = TRUE
    /\ \E a \in {NoAttrs, [n \in {"class"} |-> "dark"]} : htmlAttrs' = a
    /\ lastOp' = [op |-> "parseHtml"]
    /\ UNCHANGED <<composeVars, ctxVars, readyState, dclFired, bodyPresent, bodyAttrs,
                   pageVars, telVars, warnVars>>

\* the parser creates the body element (document.body is a child of the root)
ParseBody ==
    /\ readyState = "loading"
    /\ htmlPresent
    /\ ~bodyPresent
    /\ bodyPresent' = TRUE
    /\ \E a \in {NoAttrs, [n \in {"class"} |-> "app"]} : bodyAttrs' = a
    /\ lastOp' = [op |-> "parseBody"]
    /\ UNCHANGED <<composeVars, ctxVars, readyState, dclFired, htmlPresent, htmlAttrs,
                   pageVars, telVars, warnVars>>

\* parsing ends: an HTML document has its root and body by then
BecomeInteractive ==
    /\ readyState = "loading"
    /\ htmlPresent /\ bodyPresent
    /\ readyState' = "interactive"
    /\ lastOp' = [op |-> "interactive"]
    /\ UNCHANGED <<composeVars, ctxVars, dclFired, htmlPresent, bodyPresent, htmlAttrs,
                   bodyAttrs, pageVars, telVars, warnVars>>

\* the DOMContentLoaded dispatch: every pending listener runs one pass
DOMContentLoaded ==
    /\ readyState = "interactive"
    /\ ~dclFired
    /\ dclFired' = TRUE
    /\ SetDoc(RunListeners(Doc, listeners))
    /\ passes' = passes + Len(listeners)
    /\ listeners' = ListenersAfterDispatch(listeners)
    /\ lastOp' = [op |-> "DOMContentLoaded", ran |-> listeners,
                   found |-> UNION {ListedOn(Doc, listeners[i]) : i \in DOMAIN listeners}]
    /\ UNCHANGED <<composeVars, ctxVars, readyState, threw, invocations, telVars, warnVars>>

BecomeComplete ==
    /\ readyState = "interactive"
    /\ dclFired
    /\ readyState' = "complete"
    /\ lastOp' = [op |-> "complete"]
    /\ UNCHANGED <<composeVars, ctxVars, dclFired, htmlPresent, bodyPresent, htmlAttrs,
                   bodyAttrs, pageVars, telVars, warnVars>>

\* an extension sets an attribute on the root or on the body
Inject(onBody, name, value) ==
    /\ IF onBody
       THEN /\ bodyPresent
            /\ bodyAttrs' = setAttribute(bodyAttrs, name, value)
            /\ htmlAttrs' = htmlAttrs
       ELSE /\ htmlPresent
            /\ htmlAttrs' = setAttribute(htmlAttrs, name, value)
            /\ bodyAttrs' = bodyAttrs
    /\ lastOp' = [op |-> "inject", onBody |-> onBody, name |-> name]
    /\ UNCHANGED <<composeVars, ctxVars, readyState, dclFired, htmlPresent, bodyPresent,
                   pageVars, telVars, warnVars>>

(***************************************************************************)
(* Idle values of the parts a specification does not exercise.             *)
(***************************************************************************)
SetupIdle ==
    /\ options = [nonce |-> Undefined, enableTelemetry |-> Undefined, enabled |-> Undefined]
    /\ flags = [cleanupDisable |-> Undefined, windowDisable |-> FALSE,
                cleanupTelemetry |-> Undefined]
    /\ props = NoResult
    /\ setup = NoResult

CliIdle ==
    /\ cliArgs = [help |-> FALSE, attrs |-> Undefined, envOverride |-> FALSE,
                  format |-> Undefined, output |-> Undefined]
    /\ cliOut = NoResult

ComposeIdle ==
    /\ env = [process |-> TRUE, set |-> FALSE, value |-> <<>>]
    /\ customAttrs = <<>>
    /\ useEnvOverride = FALSE
    /\ script = NoResult
    /\ bundle = NoResult
    /\ SetupIdle
    /\ CliIdle

PageIdle ==
    /\ listeners = <<>>
    /\ threw = FALSE
    /\ passes = 0
    /\ invocations = 0

TelemetryIdle ==
    /\ attributeTelemetry = <<>>
    /\ reports = 0

T0 == 100000          \* Date.now() when the page starts

WarnIdle ==
    /\ logThrottleCache = <<>>
    /\ timers = <<>>
    /\ now = T0
    /\ logs = <<>>

LoadedDocument ==
    /\ readyState = "complete"
    /\ dclFired = TRUE
    /\ htmlPresent = TRUE
    /\ bodyPresent = TRUE

(***************************************************************************)
(* SpecCompose: the script generators applied to drawn inputs.             *)
(***************************************************************************)
CustomNames == {"spellcheck", "y-ext"}

EnvValues ==
    {[process |-> FALSE, set |-> FALSE, value |-> <<>>],
     [process |-> TRUE, set |-> FALSE, value |-> <<>>]}
    \cup {[process |-> TRUE, set |-> TRUE, value |-> v] : v \in SeqsUpTo(EnvPieces, MaxEnvLen)}

NonceOptions == {Undefined, Given(""), Given("r4nd0m")}
TelemetryOptions == {Undefined, Given(TRUE), Given(FALSE)}

InitCompose ==
    /\ env \in EnvValues
    /\ customAttrs \in SeqsUpTo(CustomNames, MaxCustom)
    /\ useEnvOverride \in BOOLEAN
    /\ script = NoResult
    /\ bundle = NoResult
    /\ SetupIdle
    /\ CliIdle
    /\ hasWindow = FALSE
    /\ nodeEnv = "production"
    /\ LoadedDocument
    /\ htmlAttrs = NoAttrs
    /\ bodyAttrs = NoAttrs
    /\ PageIdle /\ TelemetryIdle /\ WarnIdle
    /\ lastOp = [op |-> "init"]

\* the generators are pure: one call of each per drawn input shows its result
CallCreatePreHydrationScript ==
    /\ script = NoResult
    /\ script' = createPreHydrationScript(customAttrs, useEnvOverride, env)
    /\ lastOp' = [op |-> "createPreHydrationScript"]
    /\ UNCHANGED <<env, customAttrs, useEnvOverride, bundle, setupVars, cliVars,
                   ctxVars, domVars, pageVars, telVars, warnVars>>

CallCreateCSPSafeScript(nonce, enableTelemetry) ==
    /\ bundle = NoResult
    /\ bundle' = createCSPSafeScript(customAttrs, useEnvOverride, nonce, enableTelemetry, env)
    /\ lastOp' = [op |-> "createCSPSafeScript"]
    /\ UNCHANGED <<env, customAttrs, useEnvOverride, script, setupVars, cliVars,
                   ctxVars, domVars, pageVars, telVars, warnVars>>

NextCompose ==
    \/ CallCreatePreHydrationScript
    \/ \E nonce \in NonceOptions, tel \in TelemetryOptions :
          CallCreateCSPSafeScript(nonce, tel)

SpecCompose == InitCompose /\ [][NextCompose]_vars

(***************************************************************************)
(* SpecCleanup: a browser page from parsing to complete.                   *)
(***************************************************************************)
InitCleanup ==
    /\ ComposeIdle
    /\ hasWindow = TRUE
    /\ nodeEnv = "production"
    /\ readyState \in {"loading", "interactive", "complete"}
    /\ dclFired = (readyState = "complete")
    /\ htmlPresent \in BOOLEAN
    /\ bodyPresent \in BOOLEAN
    /\ bodyPresent => htmlPresent
    /\ readyState # "loading" => htmlPresent /\ bodyPresent
    /\ htmlAttrs \in IF htmlPresent THEN ElementStates ELSE {NoAttrs}
    /\ bodyAttrs \in IF bodyPresent THEN ElementStates ELSE {NoAttrs}
    /\ PageIdle /\ TelemetryIdle /\ WarnIdle
    /\ lastOp = [op |-> "init"]

NextCleanup ==
    \/ ParseHtml
    \/ ParseBody
    \/ BecomeInteractive
    \/ DOMContentLoaded
    \/ BecomeComplete
    \/ \E onBody \in BOOLEAN, name \in DomNames : \E value \in ValuesOf(name) :
          Inject(onBody, name, value)
    \/ \E attrs \in AttrLists : PreHydrationCleanup(attrs)
    \/ \E attrs \in AttrLists : EvalTelemetryScript(attrs)

SpecCleanup == InitCleanup /\ [][NextCleanup]_vars

(***************************************************************************)
(* Claims on the composition (SpecCompose).                                *)
(***************************************************************************)
NoRepeats(r) == \A i, j \in DOMAIN r : i # j => r[i] # r[j]

\* each element of r first occurs in s before the next one does
InFirstSeenOrder(r, s) ==
    \A i \in 1..(Len(r) - 1) : FirstIndex(s, r[i]) < FirstIndex(s, r[i + 1])

\* r holds every element of s exactly once and nothing else, in the order of
\* first occurrence in s
IsFirstOccurrenceDedupe(r, s) ==
    /\ NoRepeats(r)
    /\ Range(r) = Range(s)
    /\ InFirstSeenOrder(r, s)

\* the attribute lists the generators have produced so far
ComposedLists ==
    (IF script = NoResult THEN {} ELSE {script.args})
    \cup (IF bundle = NoResult THEN {} ELSE {bundle.attrs, bundle.content.args})

EnvList == getAttrsFromEnv(env)

\* C1: under the merge policy the composed list of createPreHydrationScript and
\* of createCSPSafeScript holds every element of the defaults, the environment
\* list and the custom list exactly once and nothing else, in the order of
\* first occurrence in defaults, environment, custom.
C1_MergeComposition ==
    ~useEnvOverride =>
        \A r \in ComposedLists :
            IsFirstOccurrenceDedupe(r, COMMON_EXTENSION_ATTRS \o EnvList \o customAttrs)

\* C1 witness: both generators have run under the merge policy on lists that
\* overlap each other and the defaults.
C1_Witness ==
    /\ ~useEnvOverride
    /\ EnvList = <<"spellcheck", "y-ext">>
    /\ customAttrs = <<"y-ext", "spellcheck">>
    /\ script # NoResult /\ bundle # NoResult
    /\ script.args = COMMON_EXTENSION_ATTRS \o <<"y-ext">>
    /\ bundle.attrs = script.args

\* C2: under the override policy, a non-empty environment list gives the
\* first-occurrence deduplication of environment list then custom list, with
\* no default attribute that is in neither; an empty environment list gives
\* the list the merge policy produces for the same inputs.
C2_OverrideComposition ==
    useEnvOverride =>
        \A r \in ComposedLists :
            IF EnvList # <<>>
            THEN /\ IsFirstOccurrenceDedupe(r, EnvList \o customAttrs)
                 /\ \A d \in Range(COMMON_EXTENSION_ATTRS) :
                        d \notin Range(EnvList) \cup Range(customAttrs) => d \notin Range(r)
            ELSE /\ r = ComposeAttrs(customAttrs, FALSE, env)
                 /\ IsFirstOccurrenceDedupe(r, COMMON_EXTENSION_ATTRS \o customAttrs)

\* C2 witness: the override policy with a non-empty environment list.
C2_Witness ==
    /\ useEnvOverride
    /\ EnvList = <<"y-ext">>
    /\ customAttrs = <<"spellcheck", "y-ext">>
    /\ script # NoResult /\ bundle # NoResult
    /\ script.args = <<"y-ext", "spellcheck">>
    /\ bundle.content.args = script.args

\* C2 witness of the fallback: the override policy with an empty environment list.
C2_WitnessFallback ==
    /\ useEnvOverride
    /\ env.set /\ env.value = <<Blank, Comma>>
    /\ customAttrs = <<"y-ext">>
    /\ script # NoResult
    /\ script.args = COMMON_EXTENSION_ATTRS \o <<"y-ext">>

(***************************************************************************)
(* Claims on the Cleanup Routine (SpecCleanup).                            *)
(***************************************************************************)
\* this step is a call preHydrationCleanup(attrs)
CleanupStep(attrs) ==
    /\ invocations' = invocations + 1
    /\ lastOp'.op = "cleanup"
    /\ lastOp'.attrs = attrs

\* el2 is el without the names of attrs: none of them left, every other
\* attribute kept with its value, nothing added
StrippedOf(el, el2, attrs) ==
    /\ \A a \in Range(attrs) : ~hasAttribute(el2, a)
    /\ \A n \in DOMAIN el \ Range(attrs) : hasAttribute(el2, n) /\ el2[n] = el[n]
    /\ DOMAIN el2 \subseteq DOMAIN el

\* C3: after the Cleanup Routine runs on a document with a root and a body,
\* neither carries an attribute of attrs, every other attribute is still there
\* with its value, none is added; with no listed attribute present nothing
\* changes; no error is raised.
C3_CleanupFrame ==
    [][\A attrs \in AttrLists :
          CleanupStep(attrs) /\ htmlPresent /\ bodyPresent =>
             /\ StrippedOf(htmlAttrs, htmlAttrs', attrs)
             /\ StrippedOf(bodyAttrs, bodyAttrs', attrs)
             /\ (ListedOn(Doc, attrs) = {} => htmlAttrs' = htmlAttrs /\ bodyAttrs' = bodyAttrs)
             /\ htmlPresent' /\ bodyPresent'
             /\ threw' = threw]_vars

\* C3 witness: the routine has run with the three-name list on a document whose
\* root and body carried cz-shortcut-listen and data-gramm beside a class.
C3_Witness ==
    /\ lastOp.op = "cleanup"
    /\ lastOp.attrs = <<"cz-shortcut-listen", "data-gramm", "unrelated-attr">>
    /\ lastOp.found = {"cz-shortcut-listen", "data-gramm"}
    /\ htmlPresent /\ bodyPresent
    /\ htmlAttrs = [n \in {"class"} |-> "dark"]
    /\ bodyAttrs = [n \in {"class"} |-> "app"]
    /\ ~threw

\* C3 witness of the no-op: the routine has run with no listed attribute present.
C3_WitnessNoop ==
    /\ lastOp.op = "cleanup"
    /\ lastOp.found = {}
    /\ htmlPresent /\ bodyPresent
    /\ "class" \in DOMAIN bodyAttrs

\* C4: each target node is skipped independently: in a pass where the body is
\* absent and the root present, every attribute of attrs carried by the root is
\* removed (and the body is cleaned when the root is absent).
C4_IndependentSkip ==
    [][\A attrs \in AttrLists :
          CleanupStep(attrs) =>
             /\ (htmlPresent => \A a \in Range(attrs) : ~hasAttribute(htmlAttrs', a))
             /\ (bodyPresent => \A a \in Range(attrs) : ~hasAttribute(bodyAttrs', a))]_vars

\* C5: every invocation performs exactly two passes: the first at invocation,
\* the second inline when the document is interactive or complete, otherwise
\* once when DOMContentLoaded is dispatched (the listener is one-shot).  An
\* attribute of attrs injected before the dispatch is absent after it; an
\* attribute disappears from the root or body only in a step that runs a pass.
C5_PassCount ==
    /\ passes + Len(listeners) = 2 * invocations
    /\ dclFired => listeners = <<>>

C5_PassSteps ==
    /\ \A attrs \in AttrLists :
          CleanupStep(attrs) =>
             IF readyState = "loading"
             THEN passes' = passes + 1 /\ listeners' = Append(listeners, attrs)
             ELSE passes' = passes + 2 /\ listeners' = listeners
    /\ (dclFired' /\ ~dclFired) =>
          /\ passes' = passes + Len(listeners)
          /\ listeners' = <<>>
          /\ \A i \in DOMAIN listeners : \A a \in Range(listeners[i]) :
                ~hasAttribute(htmlAttrs', a) /\ ~hasAttribute(bodyAttrs', a)
    /\ (lastOp'.op \notin {"cleanup", "DOMContentLoaded"}) =>
          passes' = passes /\ listeners' = listeners
    /\ (lastOp'.op # "evalTelemetry" /\ passes' = passes) =>
          /\ DOMAIN htmlAttrs \subseteq DOMAIN htmlAttrs'
          /\ DOMAIN bodyAttrs \subseteq DOMAIN bodyAttrs'

\* C5: exactly two passes per invocation (C5_PassCount in every state) and the
\* scheduling of the second pass (C5_PassSteps in every step).
C5_TwoPasses == []C5_PassCount /\ [][C5_PassSteps]_vars

\* C5 witness: a deferred second pass has run on DOMContentLoaded and removed
\* an attribute that was there at the dispatch.
C5_Witness ==
    /\ lastOp.op = "DOMContentLoaded"
    /\ lastOp.ran = << <<"cz-shortcut-listen">> >>
    /\ lastOp.found = {"cz-shortcut-listen"}
    /\ invocations = 1 /\ passes = 2 /\ listeners = <<>>
    /\ ~hasAttribute(htmlAttrs, "cz-shortcut-listen")
    /\ ~hasAttribute(bodyAttrs, "cz-shortcut-listen")

\* C6: evaluating the serialized script in a page never raises an error, for
\* either embedded routine and every attribute list, whether or not the body
\* exists and whether or not a listed attribute is found and removed.
C6_NeverThrows == ~threw

(***************************************************************************)
(* SpecTelemetry: calls of the exported telemetry variant on a loaded page *)
(* into which extensions keep injecting their attributes.                  *)
(***************************************************************************)
ExtensionNames == {"cz-shortcut-listen", "data-gramm"}

InitTelemetry ==
    /\ ComposeIdle
    /\ hasWindow \in BOOLEAN
    /\ nodeEnv \in {"development", "production"}
    /\ LoadedDocument
    /\ htmlAttrs = NoAttrs
    /\ bodyAttrs = [n \in {"class"} |-> "app"]
    /\ PageIdle /\ TelemetryIdle /\ WarnIdle
    /\ lastOp = [op |-> "init"]

NextTelemetry ==
    \/ \E onBody \in BOOLEAN, name \in ExtensionNames : \E value \in ValuesOf(name) :
          Inject(onBody, name, value)
    \/ \E attrs \in AttrLists : PreHydrationCleanupWithTelemetry(attrs)

SpecTelemetry == InitTelemetry /\ [][NextTelemetry]_vars

(***************************************************************************)
(* Claims on the Telemetry Sidecar (SpecTelemetry).                        *)
(***************************************************************************)
\* C7: in development mode in a browser, the number of reports emitted equals
\* the number of non-zero multiples of 10 the cumulative removal count has
\* reached (one at 10, still one at 15, two at 20).
C7_ReportPerTen ==
    TelemetryActive(hasWindow, nodeEnv) =>
        reports = SumValues(attributeTelemetry) \div 10

\* C8, as stated: unless both a browser context and development mode are active,
\* a call leaves every attribute in place, the counters unchanged and emits no
\* report.
C8_NoOpUnlessBoth ==
    [][lastOp'.op = "telemetry" /\ ~(hasWindow /\ nodeEnv = "development") =>
          /\ htmlAttrs' = htmlAttrs /\ bodyAttrs' = bodyAttrs
          /\ attributeTelemetry' = attributeTelemetry
          /\ reports' = reports]_vars

\* C8 amended: without a browser context a call changes nothing; in a browser
\* context outside development mode a call still removes the listed attributes
\* from the root and the body (the others stay), leaves the counters unchanged
\* and emits no report.
C8_TelemetryGated ==
    [][lastOp'.op = "telemetry" =>
          /\ ~hasWindow =>
                /\ htmlAttrs' = htmlAttrs /\ bodyAttrs' = bodyAttrs
                /\ attributeTelemetry' = attributeTelemetry
                /\ reports' = reports
          /\ hasWindow /\ nodeEnv # "development" =>
                /\ StrippedOf(htmlAttrs, htmlAttrs', lastOp'.attrs)
                /\ StrippedOf(bodyAttrs, bodyAttrs', lastOp'.attrs)
                /\ attributeTelemetry' = attributeTelemetry
                /\ reports' = reports]_vars

\* C8 witness: in a browser outside development mode a call has removed listed
\* attributes and counted nothing.
C8_Witness ==
    /\ hasWindow /\ nodeEnv = "production"
    /\ lastOp.op = "telemetry"
    /\ lastOp.found = {"cz-shortcut-listen", "data-gramm"}
    /\ htmlAttrs = NoAttrs
    /\ bodyAttrs = [n \in {"class"} |-> "app"]
    /\ attributeTelemetry = <<>> /\ reports = 0

\* C8 witness without a browser context: a call has left the listed attributes.
C8_WitnessNoWindow ==
    /\ ~hasWindow
    /\ lastOp.op = "telemetry"
    /\ lastOp.found = {"cz-shortcut-listen"}
    /\ hasAttribute(htmlAttrs, "cz-shortcut-listen")
    /\ attributeTelemetry = <<>> /\ reports = 0

(***************************************************************************)
(* Extension Detector and Developer Warning.                               *)
(***************************************************************************)
THROTTLE_INTERVAL == 5000
WARNING_DELAY == 1000       \* the setTimeout delay of devExtensionWarning

MaxWarnCalls == 2           \* calls of devExtensionWarning per page
MaxElapsed == 6100          \* the clock stops this long after T0

\* a signature map is an object: its entries in insertion order
Sig(name, sigs) == [name |-> name, sigs |-> sigs]

DefaultSignatures ==
    << Sig("ColorZilla", <<"cz-shortcut-listen">>),
       Sig("Grammarly", <<"data-gr-ext-installed", "data-gramm">>),
       Sig("LanguageTool", <<"data-lt-installed">>),
       Sig("LastPass", <<"data-lastpass-icon-root">>),
       Sig("Honey", <<"data-honey-extension-installed">>) >>

\* a caller's map of the same extensions, listed in another order
ReorderedSignatures ==
    << Sig("Grammarly", <<"data-gr-ext-installed", "data-gramm">>),
       Sig("ColorZilla", <<"cz-shortcut-listen">>) >>

\* signatures.some(s => body?.hasAttribute(s) || html?.hasAttribute(s))
HasSignature(d, sigs) ==
    \E i \in DOMAIN sigs :
        \/ d.bodyPresent /\ hasAttribute(d.body, sigs[i])
        \/ d.htmlPresent /\ hasAttribute(d.html, sigs[i])

RECURSIVE DetectIn(_, _)
DetectIn(d, entries) ==
    IF entries = <<>> THEN <<>>
    ELSE (IF HasSignature(d, Head(entries).sigs) THEN <<Head(entries).name>> ELSE <<>>)
         \o DetectIn(d, Tail(entries))

\* detectExtensions(extensionSignatures = defaults)
detectExtensions(win, d, customSignatures) ==
    IF ~win THEN <<>>
    ELSE DetectIn(d, OrDefault(customSignatures, DefaultSignatures))

\* Array.prototype.join(sep)
RECURSIVE Join(_, _)
Join(names, sep) ==
    IF names = <<>> THEN ""
    ELSE IF Len(names) = 1 THEN names[1]
    ELSE names[1] \o sep \o Join(Tail(names), sep)

\* `dev-extension-warning-${extensions.join(',')}`
LogKey(extensions) == "dev-extension-warning-" \o Join(extensions, ",")

NoExtensionsKey == "no-extensions-detected"

\* throttledLog: whether the message is written at time t
ThrottlePasses(cache, key, t, interval) == t - MapGetOr0(cache, key) >= interval

\* throttledLog(key, logFn, interval): [logged, cache]
throttledLog(cache, key, t, interval) ==
    IF ThrottlePasses(cache, key, t, interval)
    THEN [logged |-> TRUE, cache |-> MapSet(cache, key, t)]
    ELSE [logged |-> FALSE, cache |-> cache]

\* the branch `if (force) doLog()`: [logged, cache]
ForcedLog(cache, key, t) == [logged |-> TRUE, cache |-> cache]

\* devExtensionWarning(options): the callback is scheduled
DevExtensionWarning(force, throttleInterval, customSignatures) ==
    /\ Len(timers) + Len(logs) < MaxWarnCalls
    /\ IF ~hasWindow \/ nodeEnv # "development"
       THEN timers' = timers
       ELSE timers' = Append(timers,
                [due |-> now + WARNING_DELAY,
                 force |-> OrDefault(force, FALSE),
                 interval |-> OrDefault(throttleInterval, THROTTLE_INTERVAL),
                 signatures |-> customSignatures])
    /\ lastOp' = [op |-> "devExtensionWarning"]
    /\ UNCHANGED <<composeVars, ctxVars, domVars, pageVars, telVars,
                   logThrottleCache, now, logs>>

\* the setTimeout callback of the oldest pending call runs
TimerFires ==
    /\ timers # <<>>
    /\ now >= Head(timers).due
    /\ LET t == Head(timers)
           extensions == detectExtensions(hasWindow, Doc, t.signatures)
           key == IF Len(extensions) > 0 THEN LogKey(extensions) ELSE NoExtensionsKey
           res == IF Len(extensions) > 0
                  THEN IF t.force
                       THEN ForcedLog(logThrottleCache, key, now)
                       ELSE throttledLog(logThrottleCache, key, now, t.interval)
                  ELSE throttledLog(logThrottleCache, key, now, t.interval * 2)
       IN /\ logThrottleCache' = res.cache
          /\ logs' = Append(logs,
                [time |-> now, key |-> key, extensions |-> extensions,
                 force |-> t.force, interval |-> t.interval,
                 level |-> IF ~res.logged THEN "none"
                           ELSE IF Len(extensions) > 0 THEN "info" ELSE "debug"])
    /\ timers' = Tail(timers)
    /\ lastOp' = [op |-> "timer"]
    /\ UNCHANGED <<composeVars, ctxVars, domVars, pageVars, telVars, now>>

\* the clock is observed at whole seconds after T0 and 100 ms after each
OnGrid(t) == (t - T0) % 1000 \in {0, 100}

\* time passes; a pending callback runs when its delay has elapsed
Tick(d) ==
    /\ now + d <= T0 + MaxElapsed
    /\ OnGrid(now + d)
    /\ timers # <<>> => now + d <= Head(timers).due
    /\ now' = now + d
    /\ lastOp' = [op |-> "tick"]
    /\ UNCHANGED <<composeVars, ctxVars, domVars, pageVars, telVars,
                   logThrottleCache, timers, logs>>

(***************************************************************************)
(* SpecWarn: developer warnings on a loaded page.                          *)
(***************************************************************************)
ForceOptions == {Undefined, Given(TRUE)}
IntervalOptions == {Undefined, Given(200)}
SignatureOptions == {Undefined, Given(ReorderedSignatures)}
TickSteps == {100, 1000, 5000}

InitWarn ==
    /\ ComposeIdle
    /\ hasWindow \in BOOLEAN
    /\ nodeEnv \in {"development", "production"}
    /\ LoadedDocument
    /\ htmlAttrs \in {NoAttrs,
                      [n \in {"cz-shortcut-listen"} |-> "true"],
                      [n \in ExtensionNames |-> IF n = "data-gramm" THEN "false" ELSE "true"]}
    /\ bodyAttrs = [n \in {"class"} |-> "app"]
    /\ PageIdle /\ TelemetryIdle /\ WarnIdle
    /\ lastOp = [op |-> "init"]

NextWarn ==
    \/ \E force \in ForceOptions, interval \in IntervalOptions, sigs \in SignatureOptions :
          DevExtensionWarning(force, interval, sigs)
    \/ TimerFires
    \/ \E d \in TickSteps : Tick(d)

SpecWarn == InitWarn /\ [][NextWarn]_vars

(***************************************************************************)
(* Claims on the Developer Warning (SpecWarn).  logs holds one entry per   *)
(* callback run: level "info" or "debug" when a message was written,       *)
(* "none" when it was throttled.                                           *)
(***************************************************************************)
SameDetectedSet(a, b) ==
    /\ Range(a.extensions) = Range(b.extensions)
    /\ Range(a.extensions) # {}

\* C9: two non-forced warnings that detect the same set of extension names
\* (in whatever order the signature maps list them), the second less than its
\* throttleIntervalMs after the first, produce one informational log, not two;
\* a forced warning with detections is always logged.
C9_OneLogPerSet ==
    /\ \A i, j \in DOMAIN logs :
          (/\ i < j
           /\ ~logs[i].force /\ ~logs[j].force
           /\ SameDetectedSet(logs[i], logs[j])
           /\ logs[i].level = "info"
           /\ logs[j].time - logs[i].time < logs[j].interval)
          => logs[j].level = "none"
    /\ \A i \in DOMAIN logs :
          logs[i].force /\ logs[i].extensions # <<>> => logs[i].level = "info"

\* C10: a warning logged with force = true records its log time in the throttle
\* map under the detected set's key, so a later non-forced warning for the same
\* key within throttleIntervalMs of it is throttled.
C10_ForcedRecordsStep ==
    (/\ lastOp'.op = "timer"
     /\ Len(logs') = Len(logs) + 1
     /\ logs'[Len(logs')].force
     /\ logs'[Len(logs')].level = "info")
    => /\ MapHas(logThrottleCache', logs'[Len(logs')].key)
       /\ MapGetOr0(logThrottleCache', logs'[Len(logs')].key) = now

C10_ThrottledAfterForced ==
    \A i, j \in DOMAIN logs :
        (/\ i < j
         /\ logs[i].force /\ logs[i].level = "info"
         /\ ~logs[j].force
         /\ logs[j].key = logs[i].key
         /\ logs[j].time - logs[i].time < logs[j].interval)
        => logs[j].level = "none"

\* C10: the forced log is recorded (every step) and throttles its followers
\* (every state).
C10_ForcedLogRecorded == [][C10_ForcedRecordsStep]_vars /\ []C10_ThrottledAfterForced


(***************************************************************************)
(* SpecSetup: createCSPSafeScript, its getScriptProps and quickSetup, on   *)
(* drawn options, environment flags and execution context.  quickSetup     *)
(* reads process.env unguarded, so a process object exists.                *)
(***************************************************************************)
EnabledOptions == {Undefined, Given(TRUE), Given(FALSE), Thunk(TRUE), Thunk(FALSE)}

SetupEnv ==
    {[process |-> TRUE, set |-> FALSE, value |-> <<>>],
     [process |-> TRUE, set |-> TRUE, value |-> <<"y-ext">>]}

InitSetup ==
    /\ env \in SetupEnv
    /\ customAttrs \in {<<>>, <<"spellcheck">>}
    /\ useEnvOverride \in BOOLEAN
    /\ script = NoResult
    /\ bundle = NoResult
    /\ options \in [nonce : NonceOptions, enableTelemetry : TelemetryOptions,
                     enabled : EnabledOptions]
    /\ flags \in [cleanupDisable : {Undefined, Given("1"), Given("0")},
                   windowDisable : BOOLEAN,
                   cleanupTelemetry : {Undefined, Given("0")}]
    /\ props = NoResult
    /\ setup = NoResult
    /\ CliIdle
    /\ hasWindow \in BOOLEAN
    /\ nodeEnv \in {"development", "production"}
    /\ LoadedDocument
    /\ htmlAttrs = NoAttrs
    /\ bodyAttrs = NoAttrs
    /\ PageIdle /\ TelemetryIdle /\ WarnIdle
    /\ lastOp = [op |-> "init"]

CallGetScriptProps ==
    /\ bundle # NoResult
    /\ props = NoResult
    /\ props' = getScriptProps(bundle)
    /\ lastOp' = [op |-> "getScriptProps"]
    /\ UNCHANGED <<env, customAttrs, useEnvOverride, script, bundle, options, flags, setup,
                   cliVars, ctxVars, domVars, pageVars, telVars, warnVars>>

CallQuickSetup ==
    /\ setup = NoResult
    /\ setup' = quickSetup(customAttrs, useEnvOverride, options, flags, hasWindow,
                           nodeEnv, env)
    /\ lastOp' = [op |-> "quickSetup"]
    /\ UNCHANGED <<env, customAttrs, useEnvOverride, script, bundle, options, flags, props,
                   cliVars, ctxVars, domVars, pageVars, telVars, warnVars>>

NextSetup ==
    \/ CallCreateCSPSafeScript(options.nonce, options.enableTelemetry)
    \/ CallGetScriptProps
    \/ CallQuickSetup

SpecSetup == InitSetup /\ [][NextSetup]_vars

\* C11: the property bag of createCSPSafeScript(options).getScriptProps() has
\* id 'pre-hydration-cleanup', strategy 'beforeInteractive' and the bundle's
\* content as children; it has a nonce key, holding the supplied nonce,
\* exactly when a non-empty nonce was supplied, and no nonce key otherwise.
C11_ScriptProps ==
    props # NoResult =>
        /\ DOMAIN props \subseteq {"id", "strategy", "children", "nonce"}
        /\ props.id = "pre-hydration-cleanup"
        /\ props.strategy = "beforeInteractive"
        /\ props.children = bundle.content
        /\ "nonce" \in DOMAIN props <=> (options.nonce.given /\ options.nonce.value # "")
        /\ "nonce" \in DOMAIN props => props.nonce = options.nonce.value

\* the bag of a bundle made with an empty nonce: no nonce key
C11_Witness ==
    /\ props # NoResult
    /\ options.nonce = Given("")
    /\ "nonce" \notin DOMAIN props

\* the bag of a bundle made with a nonce: the nonce is carried
C11_WitnessNonce ==
    /\ props # NoResult
    /\ "nonce" \in DOMAIN props
    /\ props.nonce = "r4nd0m"

\* C12: when the caller of createCSPSafeScript supplies no enableTelemetry, the
\* embedded routine follows development-mode detection: the telemetry variant
\* in development mode, the standard routine otherwise.
C12_AutoDetectedVariant ==
    (bundle # NoResult /\ ~options.enableTelemetry.given) =>
        bundle.content.routine =
            IF nodeEnv = "development" THEN Telemetry ELSE Standard

\* C12 as the code has it: createCSPSafeScript embeds the telemetry variant
\* unless enableTelemetry is given as false, whatever the mode; quickSetup,
\* when its caller gives no enableTelemetry, embeds the telemetry variant
\* exactly when NODE_ENV is 'development' and CLEANUP_TELEMETRY is not '0'.
C12_VariantChoice ==
    /\ bundle # NoResult =>
           bundle.content.routine =
               IF options.enableTelemetry = Given(FALSE) THEN Standard ELSE Telemetry
    /\ (setup # NoResult /\ setup.id = "pre-hydration-cleanup"
            /\ ~options.enableTelemetry.given) =>
           setup.children.routine =
               IF nodeEnv = "development" /\ flags.cleanupTelemetry # Given("0")
               THEN Telemetry ELSE Standard

\* outside development mode, no enableTelemetry: the telemetry variant is embedded
C12_Witness ==
    /\ bundle # NoResult
    /\ ~options.enableTelemetry.given
    /\ nodeEnv = "production"
    /\ bundle.content.routine = Telemetry

\* quickSetup in development mode with CLEANUP_TELEMETRY=0: the standard routine
C12_WitnessQuickSetup ==
    /\ setup # NoResult
    /\ setup.id = "pre-hydration-cleanup"
    /\ ~options.enableTelemetry.given
    /\ nodeEnv = "development"
    /\ setup.children.routine = Standard

\* the disable switch: CLEANUP_DISABLE is '1', or the in-page flag is truthy
SwitchSet ==
    flags.cleanupDisable = Given("1") \/ (hasWindow /\ flags.windowDisable)

\* the inert placeholder: disabled id, comment-only children, no nonce key
Inert(bag) ==
    /\ bag.id = "pre-hydration-cleanup-disabled"
    /\ bag.children = DisabledContent
    /\ "routine" \notin DOMAIN bag.children
    /\ "nonce" \notin DOMAIN bag

\* C13: whenever the disable switch is set, quickSetup returns the inert
\* placeholder for every options value.
C13_DisabledPlaceholder ==
    (setup # NoResult /\ SwitchSet) => Inert(setup)

\* C13 as the code has it: with no enabled option, quickSetup returns the inert
\* placeholder exactly when the disable switch is set; a given enabled option
\* (a boolean, or a function's result) decides alone: true gives the real
\* script props even when the switch is set, false gives the placeholder.
C13_DisabledUnlessEnabled ==
    setup # NoResult =>
        /\ ~options.enabled.given => (Inert(setup) <=> SwitchSet)
        /\ options.enabled \in {Given(FALSE), Thunk(FALSE)} => Inert(setup)
        /\ options.enabled \in {Given(TRUE), Thunk(TRUE)} =>
               /\ ~Inert(setup)
               /\ setup.id = "pre-hydration-cleanup"
               /\ setup.children.routine \in {Standard, Telemetry}

\* the switch is set, no enabled option, a nonce supplied: the placeholder
C13_Witness ==
    /\ setup # NoResult
    /\ SwitchSet
    /\ ~options.enabled.given
    /\ options.nonce = Given("r4nd0m")
    /\ Inert(setup)

\* the switch is set and enabled is true: the real script
C13_WitnessOverride ==
    /\ setup # NoResult
    /\ SwitchSet
    /\ options.enabled = Given(TRUE)
    /\ setup.id = "pre-hydration-cleanup"

(***************************************************************************)
(* The command line (index.ts, cli).  An option that takes a value is      *)
(* Given(value) when the flag is on the command line; the --attrs value is *)
(* a string in lexical pieces, as the environment value is.                *)
(***************************************************************************)
MaxArgLen == 3        \* longest --attrs value drawn, in lexical pieces

PackageVersion == "1.0.0"

\* attrsIndex !== -1 && args[attrsIndex + 1] ? value.split(',').map(trim) : []
ParseAttrsArg(a) ==
    IF a.given /\ a.value # <<>>
    THEN LET tokens == SplitComma(a.value)
         IN [i \in DOMAIN tokens |-> Spell(Trim(tokens[i]))]
    ELSE <<>>

\* args.includes('--format') ? args[index + 1] || 'script' : 'script'
ParseFormat(f) == IF f.given /\ f.value # "" THEN f.value ELSE "script"

\* [...COMMON_EXTENSION_ATTRS, ...customAttrs]
ListedAttrs(custom) == COMMON_EXTENSION_ATTRS \o custom

\* the text cli() produces for the parsed arguments, by format
CliOutput(a, e, time) ==
    LET custom   == ParseAttrsArg(a.attrs)
        content  == createPreHydrationScript(custom, a.envOverride, e)
        format   == ParseFormat(a.format)
    IN CASE format = "json" ->
                [script |-> content, attrs |-> ListedAttrs(custom),
                 generated |-> time, version |-> PackageVersion]
         [] format = "module" ->
                [preHydrationCleanupScript |-> content,
                 cleanupAttrs |-> ListedAttrs(custom), version |-> PackageVersion]
         [] OTHER -> content

\* cli(): the usage text for --help, else the output to the file or stdout
cli(a, e, time) ==
    IF a.help THEN [written |-> [usage |-> TRUE], to |-> "stdout"]
    ELSE [written |-> CliOutput(a, e, time),
          to |-> IF a.output.given /\ a.output.value # "" THEN a.output.value ELSE "stdout"]

ArgPieces == EnvPieces

FormatOptions ==
    {Undefined, Given(""), Given("script"), Given("json"), Given("module"), Given("yaml")}

InitCli ==
    /\ env \in SetupEnv
    /\ customAttrs = <<>>
    /\ useEnvOverride = FALSE
    /\ script = NoResult
    /\ bundle = NoResult
    /\ SetupIdle
    /\ cliArgs \in [help : BOOLEAN,
                     attrs : {Undefined} \cup {Given(v) : v \in SeqsUpTo(ArgPieces, MaxArgLen)},
                     envOverride : BOOLEAN,
                     format : FormatOptions,
                     output : {Undefined, Given("cleanup.json")}]
    /\ cliOut = NoResult
    /\ hasWindow = FALSE
    /\ nodeEnv = "production"
    /\ LoadedDocument
    /\ htmlAttrs = NoAttrs
    /\ bodyAttrs = NoAttrs
    /\ PageIdle /\ TelemetryIdle /\ WarnIdle
    /\ lastOp = [op |-> "init"]

Cli ==
    /\ cliOut = NoResult
    /\ cliOut' = cli(cliArgs, env, now)
    /\ lastOp' = [op |-> "cli"]
    /\ UNCHANGED <<env, customAttrs, useEnvOverride, script, bundle, setupVars, cliArgs,
                   ctxVars, domVars, pageVars, telVars, warnVars>>

NextCli == Cli

SpecCli == InitCli /\ [][NextCli]_vars

\* the names given in --attrs: the non-empty trimmed items of the list
SuppliedNames == Range(FilterNonEmpty(ParseAttrsArg(cliArgs.attrs)))

\* cli() wrote the json form
JsonWritten ==
    /\ cliOut # NoResult
    /\ ~cliArgs.help
    /\ cliArgs.format = Given("json")

\* C14: the attrs field of the json output holds each supplied custom name and
\* each default name exactly once, and is the attribute list embedded in the
\* script field of the same output.
C14_JsonAttrsComposed ==
    JsonWritten =>
        /\ \A n \in SuppliedNames \cup Range(COMMON_EXTENSION_ATTRS) :
               Cardinality({i \in DOMAIN cliOut.written.attrs :
                               cliOut.written.attrs[i] = n}) = 1
        /\ cliOut.written.attrs = cliOut.written.script.args

(***************************************************************************)
(* SpecClear: a development page on which the host warns, cleans with      *)
(* telemetry and clears the log throttle cache.                            *)
(***************************************************************************)
clearLogThrottleCache_Keep(cache) == cache

\* logThrottleCache.clear()
clearLogThrottleCache(cache) == <<>>

ClearLogThrottleCache ==
    /\ logThrottleCache' = clearLogThrottleCache(logThrottleCache)
    /\ lastOp' = [op |-> "clearLogThrottleCache"]
    /\ UNCHANGED <<composeVars, ctxVars, domVars, pageVars, telVars, timers, now, logs>>

InitClear ==
    /\ ComposeIdle
    /\ hasWindow = TRUE
    /\ nodeEnv = "development"
    /\ LoadedDocument
    /\ htmlAttrs \in {[n \in {"cz-shortcut-listen"} |-> "true"],
                      [n \in ExtensionNames |-> IF n = "data-gramm" THEN "false" ELSE "true"]}
    /\ bodyAttrs = [n \in {"class"} |-> "app"]
    /\ PageIdle /\ TelemetryIdle /\ WarnIdle
    /\ lastOp = [op |-> "init"]

NextClear ==
    \/ \E force \in ForceOptions : DevExtensionWarning(force, Undefined, Undefined)
    \/ TimerFires
    \/ \E d \in TickSteps : Tick(d)
    \/ PreHydrationCleanupWithTelemetry(<<"cz-shortcut-listen">>)
    \/ ClearLogThrottleCache

SpecClear == InitClear /\ [][NextClear]_vars

\* a step of clearLogThrottleCache (a second clear in a row changes nothing)
ClearStep == lastOp'.op = "clearLogThrottleCache"

\* C15: clearLogThrottleCache resets the whole counter state: afterwards the
\* throttle timestamp map and the per-attribute removal-count map are both
\* empty, so the removal count restarts from zero.
C15_ResetsCounters ==
    [][ClearStep => (logThrottleCache' = <<>> /\ attributeTelemetry' = <<>>)]_vars

\* C15 as the code has it: clearLogThrottleCache empties the throttle
\* timestamp map and leaves the removal counts and the reports alone; the
\* next warning, for any key, is then written and not throttled.
C15_ClearsThrottleOnly ==
    [][/\ ClearStep =>
            /\ logThrottleCache' = <<>>
            /\ attributeTelemetry' = attributeTelemetry
            /\ reports' = reports
       /\ (logs' # logs /\ logThrottleCache = <<>>) =>
            logs'[Len(logs')].level # "none"]_vars

\* two warnings for one key less than the throttle interval apart, both
\* written: the cache was cleared in between, and the removal counts, made
\* before the first warning, are still there
C15_Witness ==
    /\ Len(logs) = 2
    /\ logs[1].key = logs[2].key
    /\ ~logs[1].force /\ ~logs[2].force
    /\ logs[1].level = "info" /\ logs[2].level = "info"
    /\ logs[2].time - logs[1].time < THROTTLE_INTERVAL
    /\ attributeTelemetry # <<>>

====
